---- MODULE Spec2Model ----
(***************************************************************************)
(* Model of the Pleasant Password Server lookup plugin                     *)
(* (src/plugins/lookup/pleasant.py; src/pleasant.py carries the same code).*)
(* One invocation of LookupModule.run issues up to three HTTP calls: the   *)
(* token POST, the entry GET and the password GET.  The transport          *)
(* (requests.request) is the environment: each call either raises a        *)
(* requests exception or answers with a status, a reason and a body.       *)
(***************************************************************************)
EXTENDS Integers, Sequences, FiniteSets, TLC

\* ---------------------------------------------------------------- bounds
MaxRuns == 2        \* invocations of run on one plugin object
NumTokens == 2      \* distinct access_token strings the server may hand out

\* ------------------------------------------------------ program constants
DefaultTimeout == 5     \* `timeout = 5` when the caller gave none
OkStatus == 200         \* `response.status_code != 200`

\* ------------------------------------------------------------ JSON values
\* A decoded JSON value: t is the Python type, s/n the scalar payload, f the
\* mapping of a dict (empty for everything else).
EmptyObj == [k \in {} |-> 0]
Str(s) == [t |-> "str", s |-> s, n |-> 0, f |-> EmptyObj]
Num(n) == [t |-> "int", s |-> "", n |-> n, f |-> EmptyObj]
NoneVal == [t |-> "None", s |-> "", n |-> 0, f |-> EmptyObj]
ListVal == [t |-> "list", s |-> "", n |-> 0, f |-> EmptyObj]
Obj(f) == [t |-> "dict", s |-> "", n |-> 0, f |-> f]

\* ansible to_text(obj) with the default nonstring='simplerepr': a text is
\* returned as it is, anything else goes through str(obj).
to_text(v) ==
    CASE v.t = "str" -> v.s
      [] v.t = "int" -> ToString(v.n)
      [] v.t = "None" -> "None"
      [] v.t = "list" -> "[]"
      [] OTHER -> "{}"

\* ------------------------------------------------------------- exceptions
\* The classes an exception is an instance of (its MRO), for `except` matching.
Ancestors(cls) ==
    CASE cls = "ConnectionError" -> {"ConnectionError", "RequestException", "Exception"}
      [] cls = "ConnectTimeout" -> {"ConnectTimeout", "ConnectionError", "Timeout",
                                    "RequestException", "Exception"}
      [] cls = "ReadTimeout" -> {"ReadTimeout", "Timeout", "RequestException", "Exception"}
      [] cls = "HTTPError" -> {"HTTPError", "RequestException", "Exception"}
      [] cls = "URLRequired" -> {"URLRequired", "RequestException", "Exception"}
      [] cls = "InvalidURL" -> {"InvalidURL", "RequestException", "ValueError", "Exception"}
      [] cls = "JSONDecodeError" -> {"JSONDecodeError", "RequestException", "ValueError",
                                     "Exception"}
      [] OTHER -> {cls, "Exception"}

Exc(cls, msg) == [cls |-> cls, msg |-> msg]
NoExc == Exc("", <<>>)

\* A function result: either a value or a raised exception.
Ok(v) == [ok |-> TRUE, val |-> v, exc |-> NoExc]
Raise(e) == [ok |-> FALSE, val |-> NoneVal, exc |-> e]

\* A try statement's except clauses, in source order: the first clause whose
\* class the exception is an instance of re-raises AnsibleError(prefix + to_native(e));
\* an exception no clause matches propagates unchanged.
Matching(handlers, e) == {i \in 1..Len(handlers) : handlers[i].cls \in Ancestors(e.cls)}
FirstMatch(handlers, e) ==
    CHOOSE i \in Matching(handlers, e) : \A j \in Matching(handlers, e) : i <= j
Catch(handlers, e) ==
    IF Matching(handlers, e) = {} THEN e
    ELSE Exc("AnsibleError", <<handlers[FirstMatch(handlers, e)].prefix>> \o e.msg)

H(cls, prefix) == [cls |-> cls, prefix |-> prefix]

TokenHandlers ==
    << H("ConnectionError", "Can't connect to host to get token"),
       H("HTTPError", "An HTTP Error occured"),
       H("URLRequired", "Invalid url"),
       H("ConnectTimeout", "The request timed out while trying to connect to the remote server. Retry later."),
       H("Timeout", "The request timed out") >>

EntryHandlers ==
    TokenHandlers \o << H("Exception", "Failed to execute get_pps_entry: error") >>

PasswordHandlers ==
    TokenHandlers \o << H("Exception", "Failed to get password") >>

RunHandlers ==
    << H("ConnectionError", "Can't connect to host to get token"),
       H("HTTPError", "An HTTP Error occured"),
       H("URLRequired", "Invalid url:"),
       H("ConnectTimeout", "The request timed out while trying to connect to the remote server. Retry later:"),
       H("Timeout", "The request timed out:"),
       H("Exception", "No entry found") >>

\* ------------------------------------------------ the transport's answers
Statuses == {200, 204, 304, 404, 500}
Reason(status) ==
    CASE status = 200 -> "OK"
      [] status = 204 -> "No Content"
      [] status = 304 -> "Not Modified"
      [] status = 404 -> "Not Found"
      [] OTHER -> "Internal Server Error"

Body(isjson, v) == [isjson |-> isjson, val |-> v]
NotJson == Body(FALSE, NoneVal)
Response(status, body) == [status_code |-> status, reason |-> Reason(status), body |-> body]
NoResponse == Response(0, NotJson)

Answered(resp) == [raised |-> FALSE, exc |-> NoExc, resp |-> resp]
Failed(e) == [raised |-> TRUE, exc |-> e, resp |-> NoResponse]

TransportErrors ==
    { Exc("ConnectionError", <<"Connection refused">>),
      Exc("ConnectTimeout", <<"Connection to host timed out">>),
      Exc("ReadTimeout", <<"Read timed out">>),
      Exc("URLRequired", <<"A valid URL is required">>),
      Exc("InvalidURL", <<"Invalid URL">>) }

TokenStrings == {"T" \o ToString(i) : i \in 1..NumTokens}
TokenBodies ==
    {NotJson, Body(TRUE, ListVal), Body(TRUE, Obj(EmptyObj)),
     Body(TRUE, Obj([k \in {"access_token"} |-> Num(7)]))}
    \cup {Body(TRUE, Obj([k \in {"access_token"} |-> Str(s)])) : s \in TokenStrings}
EntryBodies ==
    {NotJson, Body(TRUE, ListVal), Body(TRUE, Obj(EmptyObj)),
     Body(TRUE, Obj([k \in {"Username"} |-> Str("bob")])),
     Body(TRUE, Obj([k \in {"Username"} |-> Num(42)]))}
PasswordBodies ==
    {NotJson, Body(TRUE, Str("s3cret")), Body(TRUE, Num(1234)), Body(TRUE, NoneVal)}

Outcomes(bodies) ==
    {Failed(e) : e \in TransportErrors}
    \cup {Answered(Response(st, b)) : st \in Statuses, b \in bodies}

\* ------------------------------------------------------ requests.Response
\* Response.raise_for_status(): raises HTTPError for 4xx and 5xx only.
raise_for_status(resp) ==
    IF 400 <= resp.status_code /\ resp.status_code < 500
    THEN Raise(Exc("HTTPError", <<ToString(resp.status_code), "Client Error", resp.reason>>))
    ELSE IF 500 <= resp.status_code /\ resp.status_code < 600
    THEN Raise(Exc("HTTPError", <<ToString(resp.status_code), "Server Error", resp.reason>>))
    ELSE Ok(NoneVal)

\* Response.json()
json(resp) ==
    IF resp.body.isjson THEN Ok(resp.body.val)
    ELSE Raise(Exc("JSONDecodeError", <<"Expecting value">>))

\* dict.get(key, default); any other type has no attribute 'get'.
DictGet(d, key, default) ==
    IF d.t # "dict" THEN Raise(Exc("AttributeError", <<"object has no attribute 'get'">>))
    ELSE IF key \in DOMAIN d.f THEN Ok(d.f[key])
    ELSE Ok(default)

\* "Bearer " + pleasant_at: str + non-str is a TypeError.
BearerHeader(pleasant_at) ==
    IF pleasant_at.t = "str" THEN Ok(Str("Bearer " \o pleasant_at.s))
    ELSE Raise(Exc("TypeError", <<"can only concatenate str to str">>))

\* The body of the first try statement of the three getters, after
\* requests.request came back with `out`: the status check and the except clauses.
CheckedRequest(handlers, out) ==
    IF out.raised THEN Raise(Catch(handlers, out.exc))
    ELSE IF out.resp.status_code # OkStatus /\ ~raise_for_status(out.resp).ok
    THEN Raise(Catch(handlers, raise_for_status(out.resp).exc))
    ELSE Ok(NoneVal)

\* get_token from the point requests.request came back with `out`.  In the
\* second try statement the except clause formats pleasant_at, which is not
\* bound when response.json() raised: the clause itself raises UnboundLocalError.
get_token(out) ==
    IF ~CheckedRequest(TokenHandlers, out).ok THEN CheckedRequest(TokenHandlers, out)
    ELSE IF ~json(out.resp).ok
    THEN Raise(Exc("UnboundLocalError", <<"local variable 'pleasant_at' referenced before assignment">>))
    ELSE json(out.resp)

\* get_pps_entry / get_password from the point requests.request came back.
get_pps_entry(out) == CheckedRequest(EntryHandlers, out)
get_password(out) == CheckedRequest(PasswordHandlers, out)

\* --------------------------------------------------------- the three calls
\* The timeout the caller gave: None, or a number.
NoTimeout == [isNone |-> TRUE, v |-> 0]
Seconds(v) == [isNone |-> FALSE, v |-> v]

\* `if timeout is None: timeout = 5` (get_token)
TokenTimeout(timeout) == IF timeout.isNone THEN DefaultTimeout ELSE timeout.v
\* `if not timeout: timeout = 5` (get_pps_entry, get_password)
EntryTimeout(timeout) == IF timeout.isNone \/ timeout.v = 0 THEN DefaultTimeout ELSE timeout.v

Call(method, url, ctype, auth, data, verify, timeout) ==
    [method |-> method, url |-> url, ctype |-> ctype, auth |-> auth, data |-> data,
     verify |-> verify, timeout |-> timeout]

TokenCall(pleasant_host, pleasant_username, pleasant_password, pleasant_verify, pleasant_timeout) ==
    Call("POST", pleasant_host \o "/oauth2/token", "application/x-www-form-urlencoded", "",
         "grant_type=password&username=" \o pleasant_username \o "&password=" \o pleasant_password,
         pleasant_verify, TokenTimeout(pleasant_timeout))

EntryCall(pleasant_host, guid, verify, timeout, auth) ==
    Call("GET", pleasant_host \o "/api/v5/rest/entries/" \o guid, "application/json", auth, "",
         verify, EntryTimeout(timeout))

\* Variant: the password request leaves verify out, so requests uses its default.
PasswordCallDefaultVerify(pleasant_host, pleasant_id, verify, timeout, auth) ==
    Call("GET", pleasant_host \o "/api/v5/rest/entries/" \o pleasant_id \o "/password",
         "application/json", auth, "", "True", EntryTimeout(timeout))

PasswordCall(pleasant_host, pleasant_id, verify, timeout, auth) ==
    Call("GET", pleasant_host \o "/api/v5/rest/entries/" \o pleasant_id \o "/password",
         "application/json", auth, "", verify, EntryTimeout(timeout))

\* ------------------------------------------------------------- run's steps
\* Variant: at['access_token'], a KeyError when the field is absent.
AccessTokenStrict(at_) ==
    IF at_.t # "dict" THEN Raise(Exc("TypeError", <<"indices must be integers">>))
    ELSE IF "access_token" \in DOMAIN at_.f THEN Ok(at_.f["access_token"])
    ELSE Raise(Exc("KeyError", <<"'access_token'">>))

\* at.get('access_token', 'default')
AccessToken(at_) == DictGet(at_, "access_token", Str("default"))

\* The Authorization header both getters build from run's access_token, or
\* the exception that keeps the request from being made.
Authorization(at_) ==
    IF ~AccessToken(at_).ok THEN AccessToken(at_) ELSE BearerHeader(AccessToken(at_).val)

\* entry = retval.json() after get_pps_entry, passwd = retval.json() after get_password
Decoded(getter, out) == IF ~getter.ok THEN getter ELSE json(out.resp)

\* Variant: the two fields of the record are filled the wrong way round.
AssembleSwapped(ret_, entry_, passwd) ==
    IF ~DictGet(entry_, "Username", NoneVal).ok THEN DictGet(entry_, "Username", NoneVal)
    ELSE Ok(Append(ret_, [username |-> to_text(passwd),
                          password |-> to_text(DictGet(entry_, "Username", NoneVal).val)]))

\* Variant: `if idusername: ret.append(...)`, nothing is appended without a Username.
AssembleIfUsername(ret_, entry_, passwd) ==
    IF ~DictGet(entry_, "Username", NoneVal).ok THEN DictGet(entry_, "Username", NoneVal)
    ELSE IF DictGet(entry_, "Username", NoneVal).val.t = "None" THEN Ok(ret_)
    ELSE Ok(Append(ret_, [username |-> to_text(DictGet(entry_, "Username", NoneVal).val),
                          password |-> to_text(passwd)]))

\* idusername = entry.get("Username"); ret.append({...to_text...})
Assemble(ret_, entry_, passwd) ==
    IF ~DictGet(entry_, "Username", NoneVal).ok THEN DictGet(entry_, "Username", NoneVal)
    ELSE Ok(Append(ret_, [username |-> to_text(DictGet(entry_, "Username", NoneVal).val),
                          password |-> to_text(passwd)]))

\* ------------------------------------------------------------------ state
VARIABLES
    pc,         \* where run is: "idle", "get_token", "get_pps_entry", "get_password",
                \* "returned", "raised"
    runs,       \* invocations started so far
    variables,  \* run's `variables` argument
    guid,       \* terms[0]
    calls,      \* the requests.request calls this invocation made, in order
    replies,    \* what the transport answered to each of them
    at,         \* get_token's return value
    entry,      \* the decoded entry metadata
    ret,        \* run's local list
    result,     \* the list run returned to its caller, once it has
    exc         \* the exception run raised to its caller, once it has

vars == <<pc, runs, variables, guid, calls, replies, at, entry, ret, result, exc>>

Hosts == {"https://vault:10001"}
Verifies == {"True", "False", "None", "/etc/ssl/certs/ca-bundle.crt", "/opt/ca.pem"}
Timeouts == {NoTimeout, Seconds(0), Seconds(2)}
Guids == {"guid-1", "guid-2"}
Variables ==
    [pleasant_host : Hosts, pleasant_username : {"bob"}, pleasant_password : {"hunter2"},
     pleasant_verify : Verifies, pleasant_timeout : Timeouts]

NoVariables ==
    [pleasant_host |-> "", pleasant_username |-> "", pleasant_password |-> "",
     pleasant_verify |-> "None", pleasant_timeout |-> NoTimeout]
NotReturned == [returned |-> FALSE, list |-> <<>>]
Returned(l) == [returned |-> TRUE, list |-> l]

Init ==
    /\ pc = "idle"
    /\ runs = 0
    /\ variables = NoVariables
    /\ guid = ""
    /\ calls = <<>>
    /\ replies = <<>>
    /\ at = NoneVal
    /\ entry = NoneVal
    /\ ret = <<>>
    /\ result = NotReturned
    /\ exc = NoExc

\* run is entered: the arguments are bound and ret = [].
Run ==
    /\ pc \in {"idle", "returned", "raised"}
    /\ runs < MaxRuns
    /\ \E v \in Variables, g \in Guids :
        /\ variables' = v
        /\ guid' = g
    /\ runs' = runs + 1
    /\ pc' = "get_token"
    /\ calls' = <<>>
    /\ replies' = <<>>
    /\ at' = NoneVal
    /\ entry' = NoneVal
    /\ ret' = <<>>
    /\ result' = NotReturned
    /\ exc' = NoExc

\* An exception leaves run.
Raises(e) ==
    /\ pc' = "raised"
    /\ exc' = e
    /\ UNCHANGED <<at, entry, ret, result>>

\* Variant: a failed token request is tried again (up to three requests).
GetTokenRetry ==
    /\ pc = "get_token"
    /\ \E out \in Outcomes(TokenBodies) :
        /\ calls' = Append(calls, TokenCall(variables.pleasant_host, variables.pleasant_username,
                                            variables.pleasant_password, variables.pleasant_verify,
                                            variables.pleasant_timeout))
        /\ replies' = Append(replies, out)
        /\ IF get_token(out).ok
           THEN /\ at' = get_token(out).val
                /\ pc' = "get_pps_entry"
                /\ UNCHANGED <<entry, ret, result, exc>>
           ELSE IF Len(calls) < 2
           THEN UNCHANGED <<pc, at, entry, ret, result, exc>>
           ELSE Raises(get_token(out).exc)
    /\ UNCHANGED <<runs, variables, guid>>

\* at = self.get_token(...): outside run's try statement, so whatever
\* get_token raises reaches the caller as it is.
GetToken ==
    /\ pc = "get_token"
    /\ \E out \in Outcomes(TokenBodies) :
        /\ calls' = Append(calls, TokenCall(variables.pleasant_host, variables.pleasant_username,
                                            variables.pleasant_password, variables.pleasant_verify,
                                            variables.pleasant_timeout))
        /\ replies' = Append(replies, out)
        /\ IF get_token(out).ok
           THEN /\ at' = get_token(out).val
                /\ pc' = "get_pps_entry"
                /\ UNCHANGED <<entry, ret, result, exc>>
           ELSE Raises(get_token(out).exc)
    /\ UNCHANGED <<runs, variables, guid>>

\* access_token = at.get(...); retval = self.get_pps_entry(...); entry = retval.json()
\* Everything raised here passes through run's except clauses.
GetPpsEntry ==
    /\ pc = "get_pps_entry"
    /\ IF ~Authorization(at).ok
       THEN /\ Raises(Catch(RunHandlers, Authorization(at).exc))
            /\ UNCHANGED <<calls, replies>>
       ELSE \E out \in Outcomes(EntryBodies) :
            /\ calls' = Append(calls, EntryCall(variables.pleasant_host, guid,
                                                variables.pleasant_verify,
                                                variables.pleasant_timeout,
                                                Authorization(at).val.s))
            /\ replies' = Append(replies, out)
            /\ IF Decoded(get_pps_entry(out), out).ok
               THEN /\ entry' = Decoded(get_pps_entry(out), out).val
                    /\ pc' = "get_password"
                    /\ UNCHANGED <<at, ret, result, exc>>
               ELSE Raises(Catch(RunHandlers, Decoded(get_pps_entry(out), out).exc))
    /\ UNCHANGED <<runs, variables, guid>>

\* retval = self.get_password(...); passwd = retval.json(); idusername = ...;
\* ret.append(...); return ret
GetPassword ==
    /\ pc = "get_password"
    /\ \E out \in Outcomes(PasswordBodies) :
        /\ calls' = Append(calls, PasswordCall(variables.pleasant_host, guid,
                                               variables.pleasant_verify,
                                               variables.pleasant_timeout,
                                               Authorization(at).val.s))
        /\ replies' = Append(replies, out)
        /\ IF ~Decoded(get_password(out), out).ok
           THEN Raises(Catch(RunHandlers, Decoded(get_password(out), out).exc))
           ELSE IF ~Assemble(ret, entry, Decoded(get_password(out), out).val).ok
           THEN Raises(Catch(RunHandlers,
                             Assemble(ret, entry, Decoded(get_password(out), out).val).exc))
           ELSE /\ ret' = Assemble(ret, entry, Decoded(get_password(out), out).val).val
                /\ result' = Returned(ret')
                /\ pc' = "returned"
                /\ UNCHANGED <<at, entry, exc>>
    /\ UNCHANGED <<runs, variables, guid>>

Next == Run \/ GetToken \/ GetPpsEntry \/ GetPassword

Spec == Init /\ [][Next]_vars

TypeOK ==
    /\ pc \in {"idle", "get_token", "get_pps_entry", "get_password", "returned", "raised"}
    /\ runs \in 0..MaxRuns
    /\ Len(calls) = Len(replies)

\* ================================================================ claims
\* What the claims speak about, read off the history of this invocation.
Replied(i) == i <= Len(replies)
AnsweredWith(i, status) ==
    Replied(i) /\ ~replies[i].raised /\ replies[i].resp.status_code = status
HasJson(i) == Replied(i) /\ ~replies[i].raised /\ replies[i].resp.body.isjson
JsonOf(i) == replies[i].resp.body.val
IsDict(i) == HasJson(i) /\ JsonOf(i).t = "dict"
HasField(i, key) == IsDict(i) /\ key \in DOMAIN JsonOf(i).f
Finished == pc \in {"returned", "raised"}

\* How an error reads to the caller: the failure type and the leading text of
\* its message.
IsHTTPStatusError(e) == e.cls = "AnsibleError" /\ Len(e.msg) > 0 /\ e.msg[1] = "An HTTP Error occured"
IsTimeoutError(e) ==
    /\ e.cls = "AnsibleError"
    /\ Len(e.msg) > 0
    /\ e.msg[1] \in {"The request timed out",
                     "The request timed out while trying to connect to the remote server. Retry later."}
IsDecodeError(e) == e.cls = "AnsibleError" /\ Len(e.msg) > 0 /\ e.msg[1] = "can't decode access token :"
Carries(e, text) == \E i \in 1..Len(e.msg) : e.msg[i] = text

IsTokenCall(c) == c.method = "POST" /\ c.url = variables.pleasant_host \o "/oauth2/token"
IsEntryCall(c) ==
    c.method = "GET" /\ c.url = variables.pleasant_host \o "/api/v5/rest/entries/" \o guid
IsPasswordCall(c) ==
    c.method = "GET"
    /\ c.url = variables.pleasant_host \o "/api/v5/rest/entries/" \o guid \o "/password"

\* C1: when the token POST, the entry GET and the password GET all answer 200
\* with JSON bodies (token a dict, entry a dict with Username U, password P),
\* run returns exactly [{username: text of U, password: text of P}]; the
\* fixture {"access_token":"T1"}, {"Username":"bob"}, "s3cret" gives
\* [{"username":"bob","password":"s3cret"}].
C1_AllOk ==
    /\ Finished
    /\ \A i \in 1..3 : AnsweredWith(i, 200) /\ HasJson(i)
    /\ IsDict(1)
    /\ HasField(2, "Username")
C1_Fixture ==
    /\ C1_AllOk
    /\ JsonOf(1) = Obj([k \in {"access_token"} |-> Str("T1")])
    /\ JsonOf(2) = Obj([k \in {"Username"} |-> Str("bob")])
    /\ JsonOf(3) = Str("s3cret")
C2_TokenNon200Fatal ==
    (Replied(1) /\ ~replies[1].raised /\ replies[1].resp.status_code # 200)
        => /\ pc = "raised"
           /\ IsHTTPStatusError(exc)
           /\ Len(calls) = 1

\* C3 (as claimed): a connect timeout or a read timeout of the token POST
\* ends run in a Timeout error, and no GET is issued.
C3_TokenTimeout ==
    (Replied(1) /\ replies[1].raised /\ replies[1].exc.cls \in {"ConnectTimeout", "ReadTimeout"})
        => /\ pc = "raised"
           /\ IsTimeoutError(exc)
           /\ Len(calls) = 1

C5_GetNon2xx ==
    \A i \in 2..3 :
        (Replied(i) /\ ~replies[i].raised
         /\ ~(200 <= replies[i].resp.status_code /\ replies[i].resp.status_code < 300))
            => /\ pc = "raised"
               /\ IsHTTPStatusError(exc)
               /\ Carries(exc, ToString(replies[i].resp.status_code))
               /\ Carries(exc, replies[i].resp.reason)
               /\ ~result.returned

\* C6 (as claimed): an entry answer of 200 with a JSON object that has no
\* Username field makes run fail; no record is returned.
C6_MissingUsername ==
    (AnsweredWith(2, 200) /\ IsDict(2) /\ ~HasField(2, "Username"))
        => /\ ~result.returned
           /\ Finished => pc = "raised"

\* C7 (as claimed): a token answer of 200 whose body is not JSON ends run in
\* the plugin's failure type, classified as a decode error and carrying the
\* cause's message, and no GET is issued.
C7_TokenNotJson ==
    (AnsweredWith(1, 200) /\ ~HasJson(1))
        => /\ pc = "raised"
           /\ IsDecodeError(exc)
           /\ Carries(exc, "Expecting value")
           /\ Len(calls) = 1

\* C8: a token answer that is a JSON object without access_token does not
\* fail: the entry GET is issued next, and it and the password GET carry
\* Authorization: Bearer default; with access_token T both carry Bearer T.
C8_Sent(i) == i <= Len(calls)
C8_BearerToken ==
    /\ (AnsweredWith(1, 200) /\ IsDict(1) /\ ~HasField(1, "access_token")) =>
        /\ pc = "get_pps_entry" \/ C8_Sent(2)
        /\ \A i \in 2..3 : C8_Sent(i) => calls[i].auth = "Bearer default"
    /\ (AnsweredWith(1, 200) /\ HasField(1, "access_token")
        /\ JsonOf(1).f["access_token"].t = "str") =>
        /\ pc = "get_pps_entry" \/ C8_Sent(2)
        /\ \A i \in 2..3 :
              C8_Sent(i) => calls[i].auth = "Bearer " \o JsonOf(1).f["access_token"].s
    /\ C8_Sent(3) => calls[2].auth = calls[3].auth
    /\ C8_Sent(2) => IsDict(1)
C8_Witness ==
    /\ pc = "returned"
    /\ AnsweredWith(1, 200) /\ IsDict(1) /\ ~HasField(1, "access_token")
    /\ calls[2].auth = "Bearer default"
    /\ calls[3].auth = "Bearer default"

\* C9: the calls of one invocation are the token POST, then the entry GET,
\* then the password GET, each at most once; a call is issued only when every
\* earlier one has completed and none has failed; a returned invocation has
\* issued all three.
C9_CallFailed(i) ==
    \/ replies[i].raised
    \/ raise_for_status(replies[i].resp).ok = FALSE
    \/ ~replies[i].resp.body.isjson
CaBundles == {"/etc/ssl/certs/ca-bundle.crt", "/opt/ca.pem"}
====
